---- MODULE Spec2Model ----
(***************************************************************************)
(* A model of the fog runtime core: the Machine connection manager         *)
(* (machine.go) and the LogMux / LogStream log multiplexer.                *)
(*                                                                         *)
(* Every method is modelled statement by statement: one action per step a  *)
(* goroutine takes between two points at which another goroutine may act   *)
(* on the same data.  Statements that touch only locals are merged into    *)
(* the next step that touches shared data.                                 *)
(*                                                                         *)
(* The write closure of a LogStream and its flush callback share b and t   *)
(* without a lock, so their statements interleave freely.  One statement   *)
(* on b (b.Write, b.Bytes, b.Reset) is taken as one step, and so are a     *)
(* load and a store of t: the interleavings inside bytes.Buffer are not    *)
(* modelled.  The bytes handed to the sink are those b holds when          *)
(* m.w.Write is called.                                                    *)
(***************************************************************************)
EXTENDS Integers, Sequences, FiniteSets, TLC

\* ------------------------------------------------------------------------
\* Bounds of the model
\* ------------------------------------------------------------------------

\* goroutines that call Machine.Conn on the one Machine
NumCallers == 2

\* Conn calls each goroutine makes, one after the other
MaxCalls == 2

\* ------------------------------------------------------------------------
\* Machine (machine.go)
\* ------------------------------------------------------------------------

\* the bound of the retry loop of openConn: for i := 0; i < 3; i++
MaxAttempts == 3

Callers == 1 .. NumCallers

\* a nil net.Conn (and a free mutex)
Nil == 0

\* a nil error
NilErr == "nil"

\* errors.New("failed to open connection")
ErrOpen == "failed to open connection"

VARIABLES
    conn,       \* Machine.conn: Nil, or the handle net.Dial returned
    connMu,     \* Machine.connMu: Nil when free, else the caller that holds it
    cpc,        \* cpc[c]: where caller c is inside Conn / openConn
    loopI,      \* loopI[c]: the loop variable i of openConn
    rv,         \* rv[c]: the (conn, err) pair openConn is about to return
    ret,        \* ret[c]: the (conn, err) pair the last Conn call returned
    nextConn,   \* the next handle net.Dial hands out (handles are never reused)
    nCalls,     \* nCalls[c]: Conn calls caller c has started
    \* history of the last call of each caller
    dials,      \* dials[c]: dial attempts the call made
    dialOk,     \* dialOk[c]: one of them succeeded
    absent,     \* absent[c]: the cache was absent when the call was made
    overlap,    \* overlap[c]: callers whose call was in progress during the call
    acq,        \* acq[c]: the position of the call among the lock acquisitions
    clock       \* lock acquisitions so far

connVars == << conn, connMu, cpc, loopI, rv, ret, nextConn, nCalls,
               dials, dialOk, absent, overlap, acq, clock >>

NoResult == [conn |-> Nil, err |-> "none"]

InitConn ==
    /\ conn = Nil
    /\ connMu = Nil
    /\ cpc = [c \in Callers |-> "idle"]
    /\ loopI = [c \in Callers |-> 0]
    /\ rv = [c \in Callers |-> NoResult]
    /\ ret = [c \in Callers |-> NoResult]
    /\ nextConn = 1
    /\ nCalls = [c \in Callers |-> 0]
    /\ dials = [c \in Callers |-> 0]
    /\ dialOk = [c \in Callers |-> FALSE]
    /\ absent = [c \in Callers |-> FALSE]
    /\ overlap = [c \in Callers |-> {}]
    /\ acq = [c \in Callers |-> 0]
    /\ clock = 0

InFlight == {d \in Callers : cpc[d] # "idle"}

\* Conn is entered: conn, err := m.openConn()
CallConn(c) ==
    /\ cpc[c] = "idle"
    /\ nCalls[c] < MaxCalls
    /\ cpc' = [cpc EXCEPT ![c] = "lock"]
    /\ nCalls' = [nCalls EXCEPT ![c] = @ + 1]
    /\ dials' = [dials EXCEPT ![c] = 0]
    /\ dialOk' = [dialOk EXCEPT ![c] = FALSE]
    /\ absent' = [absent EXCEPT ![c] = (conn = Nil)]
    /\ overlap' = [d \in Callers |->
                      IF d = c THEN InFlight \ {c}
                      ELSE IF d \in InFlight THEN overlap[d] \cup {c}
                      ELSE overlap[d]]
    /\ acq' = [acq EXCEPT ![c] = 0]
    /\ UNCHANGED << conn, connMu, loopI, rv, ret, nextConn, clock >>

\* m.connMu.Lock()
LockNoMutex(c) ==
    /\ cpc[c] = "lock"
    /\ connMu' = c
    /\ clock' = clock + 1
    /\ acq' = [acq EXCEPT ![c] = clock + 1]
    /\ cpc' = [cpc EXCEPT ![c] = "check"]
    /\ UNCHANGED << conn, loopI, rv, ret, nextConn, nCalls, dials, dialOk,
                    absent, overlap >>

Lock(c) ==
    /\ cpc[c] = "lock"
    /\ connMu = Nil
    /\ connMu' = c
    /\ clock' = clock + 1
    /\ acq' = [acq EXCEPT ![c] = clock + 1]
    /\ cpc' = [cpc EXCEPT ![c] = "check"]
    /\ UNCHANGED << conn, loopI, rv, ret, nextConn, nCalls, dials, dialOk,
                    absent, overlap >>

\* if conn := m.conn; conn != nil { return conn, nil }
CheckCachedAlwaysDial(c) ==
    /\ cpc[c] = "check"
    /\ loopI' = [loopI EXCEPT ![c] = 0]
    /\ cpc' = [cpc EXCEPT ![c] = "loop"]
    /\ UNCHANGED << conn, connMu, rv, ret, nextConn, nCalls, dials, dialOk,
                    absent, overlap, acq, clock >>

CheckCached(c) ==
    /\ cpc[c] = "check"
    /\ IF conn # Nil
       THEN /\ rv' = [rv EXCEPT ![c] = [conn |-> conn, err |-> NilErr]]
            /\ cpc' = [cpc EXCEPT ![c] = "unlock"]
            /\ UNCHANGED loopI
       ELSE /\ loopI' = [loopI EXCEPT ![c] = 0]
            /\ cpc' = [cpc EXCEPT ![c] = "loop"]
            /\ UNCHANGED rv
    /\ UNCHANGED << conn, connMu, ret, nextConn, nCalls, dials, dialOk,
                    absent, overlap, acq, clock >>

\* the loop condition i < 3
LoopCondOffByOne(i) == i <= MaxAttempts

LoopCond(i) == i < MaxAttempts

\* conn, err := net.Dial("unix", m.addr) succeeds and err == nil is found
DialOk(c) ==
    /\ cpc[c] = "loop"
    /\ LoopCond(loopI[c])
    /\ rv' = [rv EXCEPT ![c] = [conn |-> nextConn, err |-> NilErr]]
    /\ nextConn' = nextConn + 1
    /\ dials' = [dials EXCEPT ![c] = @ + 1]
    /\ dialOk' = [dialOk EXCEPT ![c] = TRUE]
    /\ cpc' = [cpc EXCEPT ![c] = "store"]
    /\ UNCHANGED << conn, connMu, loopI, ret, nCalls, absent, overlap, acq,
                    clock >>

\* m.conn = conn; return conn, err
StoreConn(c) ==
    /\ cpc[c] = "store"
    /\ conn' = rv[c].conn
    /\ cpc' = [cpc EXCEPT ![c] = "unlock"]
    /\ UNCHANGED << connMu, loopI, rv, ret, nextConn, nCalls, dials, dialOk,
                    absent, overlap, acq, clock >>

\* net.Dial fails (the socket is not there yet): time.Sleep(time.Second)
DialFail(c) ==
    /\ cpc[c] = "loop"
    /\ LoopCond(loopI[c])
    /\ dials' = [dials EXCEPT ![c] = @ + 1]
    /\ cpc' = [cpc EXCEPT ![c] = "sleep"]
    /\ UNCHANGED << conn, connMu, loopI, rv, ret, nextConn, nCalls, dialOk,
                    absent, overlap, acq, clock >>

\* the sleep is over: i++
Sleep(c) ==
    /\ cpc[c] = "sleep"
    /\ loopI' = [loopI EXCEPT ![c] = @ + 1]
    /\ cpc' = [cpc EXCEPT ![c] = "loop"]
    /\ UNCHANGED << conn, connMu, rv, ret, nextConn, nCalls, dials, dialOk,
                    absent, overlap, acq, clock >>

\* the loop is left: return nil, errors.New("failed to open connection")
Exhausted(c) ==
    /\ cpc[c] = "loop"
    /\ ~LoopCond(loopI[c])
    /\ rv' = [rv EXCEPT ![c] = [conn |-> Nil, err |-> ErrOpen]]
    /\ cpc' = [cpc EXCEPT ![c] = "unlock"]
    /\ UNCHANGED << conn, connMu, loopI, ret, nextConn, nCalls, dials, dialOk,
                    absent, overlap, acq, clock >>

\* Conn: if err != nil { return nil, err }; return conn, nil
ConnResult(r) ==
    IF r.err # NilErr THEN [conn |-> Nil, err |-> r.err]
    ELSE [conn |-> r.conn, err |-> NilErr]

\* defer m.connMu.Unlock() runs, openConn returns and Conn returns
UnlockOnSuccessOnly(c) ==
    /\ cpc[c] = "unlock"
    /\ connMu' = IF rv[c].err = NilErr THEN Nil ELSE connMu
    /\ ret' = [ret EXCEPT ![c] = ConnResult(rv[c])]
    /\ cpc' = [cpc EXCEPT ![c] = "idle"]
    /\ UNCHANGED << conn, loopI, rv, nextConn, nCalls, dials, dialOk,
                    absent, overlap, acq, clock >>

Unlock(c) ==
    /\ cpc[c] = "unlock"
    /\ connMu' = Nil
    /\ ret' = [ret EXCEPT ![c] = ConnResult(rv[c])]
    /\ cpc' = [cpc EXCEPT ![c] = "idle"]
    /\ UNCHANGED << conn, loopI, rv, nextConn, nCalls, dials, dialOk,
                    absent, overlap, acq, clock >>

NextConn ==
    \E c \in Callers :
        \/ CallConn(c)
        \/ Lock(c)
        \/ CheckCached(c)
        \/ DialOk(c)
        \/ StoreConn(c)
        \/ DialFail(c)
        \/ Sleep(c)
        \/ Exhausted(c)
        \/ Unlock(c)

\* ------------------------------------------------------------------------
\* NewMachine and Machine.Start (machine.go)
\* ------------------------------------------------------------------------

\* the Machines the program constructs
NumMachines == 2

\* Start calls made on one Machine, one after the other
MaxStarts == 2

\* b := make([]byte, 32)
IdBytes == 32

Machines == 1 .. NumMachines

\* strings are sequences of characters
HexDigits == << "0", "1", "2", "3", "4", "5", "6", "7",
                "8", "9", "a", "b", "c", "d", "e", "f" >>

\* hex.EncodeToString(b): two digits for every byte, the high one first
EncodeToString(b) ==
    [i \in 1 .. 2 * Len(b) |->
        IF i % 2 = 1 THEN HexDigits[(b[(i + 1) \div 2] \div 16) + 1]
        ELSE HexDigits[(b[i \div 2] % 16) + 1]]

\* what io.ReadFull(rand.Reader, b) may fill b with: the byte strings whose
\* bytes are u, but for the last one, which is v
RandByteVals == {0, 171}
RandBytes ==
    {[i \in 1 .. IdBytes |-> IF i < IdBytes THEN u ELSE v] :
        u \in RandByteVals, v \in RandByteVals}

\* generateMachineID, given what the entropy source delivers (a failing read
\* panics and no Machine is constructed)
generateMachineID(b) == EncodeToString(b)

\* the port-forward rules of a configuration
Rule22 == << "t", "c", "p", ":", ":", "2", "2", "2", "2", "-", ":", "2", "2" >>
Rule80 == << "t", "c", "p", ":", ":", "8", "0", "-", ":", "8", "0" >>
PortLists == { << >>, << << >> >>, << Rule22 >>, << Rule22, Rule80 >> }

\* strings.Join(elems, sep)
RECURSIVE Join(_, _)
Join(elems, sep) ==
    IF Len(elems) = 0 THEN << >>
    ELSE IF Len(elems) = 1 THEN elems[1]
    ELSE elems[1] \o sep \o Join(Tail(elems), sep)

User == << "u", "s", "e", "r" >>
Comma == << "," >>
HostfwdEq == << "h", "o", "s", "t", "f", "w", "d", "=" >>

\* fwds := ""; if len(m.Conf.Ports) > 0 {
\*     fwds = fmt.Sprintf(",hostfwd=%s", strings.Join(m.Conf.Ports, ",")) }
FwdsMoreThanOne(ports) ==
    IF Len(ports) > 1 THEN Comma \o HostfwdEq \o Join(ports, Comma)
    ELSE << >>

Fwds(ports) ==
    IF Len(ports) > 0 THEN Comma \o HostfwdEq \o Join(ports, Comma)
    ELSE << >>

\* "user" + fwds
NetArg(ports) == User \o Fwds(ports)

Fog == << "f", "o", "g", "/" >>
SockSuffix == << ".", "s", "o", "c", "k" >>
TtySuffix == << "_", "t", "t", "y" >> \o SockSuffix
MonitorSuffix == << "_", "m", "o", "n", "i", "t", "o", "r" >> \o SockSuffix

\* "fog/" + m.ID + ".sock"
RelSock(id) == Fog \o id \o SockSuffix

\* "fog/" + m.ID + "_tty.sock"
RelTtyNoSuffix(id) == Fog \o id \o SockSuffix

RelTty(id) == Fog \o id \o TtySuffix

\* "fog/" + m.ID + "_monitor.sock"
RelMonitor(id) == Fog \o id \o MonitorSuffix

\* the per-user runtime directory
RuntimeDir == << "/", "r", "/" >>

ErrXdg == "xdg"

\* xdg.RuntimeFile(relPath): the path below the runtime directory, or an
\* error when the directory cannot be had
RuntimeFile(relPath) ==
    { [path |-> RuntimeDir \o relPath, err |-> NilErr],
      [path |-> << >>, err |-> ErrXdg] }

VARIABLES
    made,       \* the Machines NewMachine has returned
    mID,        \* mID[m]: Machine.ID
    mPorts,     \* mPorts[m]: Machine.Conf.Ports
    maddr,      \* maddr[m]: Machine.addr
    mmonAddr,   \* mmonAddr[m]: Machine.monAddr
    spc,        \* spc[m]: where the Start call on m is
    sttyAddr,   \* sttyAddr[m]: ttyAddr of the Start call
    sargs,      \* sargs[m]: args of the Start call (the net and path parts)
    procs,      \* procs[m]: the args of the processes cmd.Start has spawned
    sret,       \* sret[m]: what the last Start call on m returned
    nStart      \* nStart[m]: Start calls made on m

startVars == << made, mID, mPorts, maddr, mmonAddr, spc, sttyAddr, sargs,
                procs, sret, nStart >>

NoArgs == [net |-> << >>, serial |-> << >>, tty |-> << >>, monitor |-> << >>]

\* no Machine is constructed yet
InitStart ==
    /\ made = {}
    /\ mID = [m \in Machines |-> << >>]
    /\ mPorts = [m \in Machines |-> << >>]
    /\ maddr = [m \in Machines |-> << >>]
    /\ mmonAddr = [m \in Machines |-> << >>]
    /\ spc = [m \in Machines |-> "idle"]
    /\ sttyAddr = [m \in Machines |-> << >>]
    /\ sargs = [m \in Machines |-> NoArgs]
    /\ procs = [m \in Machines |-> << >>]
    /\ sret = [m \in Machines |-> "none"]
    /\ nStart = [m \in Machines |-> 0]

\* NewMachine(name, conf, img, imgPath): id := generateMachineID(); addr and
\* monAddr are left empty
NewMachine(m, b, ports) ==
    /\ m \notin made
    /\ made' = made \cup {m}
    /\ mID' = [mID EXCEPT ![m] = generateMachineID(b)]
    /\ mPorts' = [mPorts EXCEPT ![m] = ports]
    /\ UNCHANGED << maddr, mmonAddr, spc, sttyAddr, sargs, procs, sret,
                    nStart >>

\* Start is entered: bin, err := exec.LookPath("qemu-system-x86_64"), and
\* return fmt.Errorf("finding qemu binary: %w", err) when it fails
StartLookPath(m, found) ==
    /\ m \in made
    /\ spc[m] = "idle"
    /\ nStart' = [nStart EXCEPT ![m] = @ + 1]
    /\ IF found
       THEN /\ spc' = [spc EXCEPT ![m] = "addr"]
            /\ sret' = [sret EXCEPT ![m] = "none"]
       ELSE /\ sret' = [sret EXCEPT ![m] = "finding qemu binary"]
            /\ UNCHANGED spc
    /\ sttyAddr' = [sttyAddr EXCEPT ![m] = << >>]
    /\ sargs' = [sargs EXCEPT ![m] = NoArgs]
    /\ UNCHANGED << made, mID, mPorts, maddr, mmonAddr, procs >>

\* addr, err := xdg.RuntimeFile("fog/" + m.ID + ".sock"); m.addr = addr
StartAddr(m) ==
    /\ spc[m] = "addr"
    /\ \E r \in RuntimeFile(RelSock(mID[m])) :
          IF r.err # NilErr
          THEN /\ sret' = [sret EXCEPT ![m] = "generating socket file path"]
               /\ spc' = [spc EXCEPT ![m] = "idle"]
               /\ UNCHANGED maddr
          ELSE /\ maddr' = [maddr EXCEPT ![m] = r.path]
               /\ spc' = [spc EXCEPT ![m] = "tty"]
               /\ UNCHANGED sret
    /\ UNCHANGED << made, mID, mPorts, mmonAddr, sttyAddr, sargs, procs,
                    nStart >>

\* ttyAddr, err := xdg.RuntimeFile("fog/" + m.ID + "_tty.sock")
StartTty(m) ==
    /\ spc[m] = "tty"
    /\ \E r \in RuntimeFile(RelTty(mID[m])) :
          IF r.err # NilErr
          THEN /\ sret' = [sret EXCEPT
                              ![m] = "generating ttysocket file path"]
               /\ spc' = [spc EXCEPT ![m] = "idle"]
               /\ UNCHANGED sttyAddr
          ELSE /\ sttyAddr' = [sttyAddr EXCEPT ![m] = r.path]
               /\ spc' = [spc EXCEPT ![m] = "mon"]
               /\ UNCHANGED sret
    /\ UNCHANGED << made, mID, mPorts, maddr, mmonAddr, sargs, procs,
                    nStart >>

\* monAddr, err := xdg.RuntimeFile("fog/" + m.ID + "_monitor.sock");
\* m.monAddr = monAddr; fwds and args are built
StartMonitor(m) ==
    /\ spc[m] = "mon"
    /\ \E r \in RuntimeFile(RelMonitor(mID[m])) :
          IF r.err # NilErr
          THEN /\ sret' = [sret EXCEPT
                              ![m] = "generating monitor socket file path"]
               /\ spc' = [spc EXCEPT ![m] = "idle"]
               /\ UNCHANGED << mmonAddr, sargs >>
          ELSE /\ mmonAddr' = [mmonAddr EXCEPT ![m] = r.path]
               /\ sargs' = [sargs EXCEPT
                               ![m] = [net |-> NetArg(mPorts[m]),
                                       serial |-> maddr[m],
                                       tty |-> sttyAddr[m],
                                       monitor |-> r.path]]
               /\ spc' = [spc EXCEPT ![m] = "spawn"]
               /\ UNCHANGED sret
    /\ UNCHANGED << made, mID, mPorts, maddr, sttyAddr, procs, nStart >>

\* cmd := exec.Command(bin, args...); err = cmd.Start(); return nil, or
\* fmt.Errorf("starting machine: %w", err)
StartSpawn(m, ok) ==
    /\ spc[m] = "spawn"
    /\ IF ok
       THEN /\ procs' = [procs EXCEPT ![m] = Append(@, sargs[m])]
            /\ sret' = [sret EXCEPT ![m] = NilErr]
       ELSE /\ sret' = [sret EXCEPT ![m] = "starting machine"]
            /\ UNCHANGED procs
    /\ spc' = [spc EXCEPT ![m] = "idle"]
    /\ UNCHANGED << made, mID, mPorts, maddr, mmonAddr, sttyAddr, sargs,
                    nStart >>

\* Machines are constructed and started, each by its own goroutine
NextStart ==
    \E m \in Machines :
        \/ \E b \in RandBytes, ports \in PortLists : NewMachine(m, b, ports)
        \/ /\ nStart[m] < MaxStarts
           /\ \E found \in BOOLEAN : StartLookPath(m, found)
        \/ StartAddr(m)
        \/ StartTty(m)
        \/ StartMonitor(m)
        \/ \E ok \in BOOLEAN : StartSpawn(m, ok)

\* ------------------------------------------------------------------------
\* LogMux and LogStream
\* ------------------------------------------------------------------------

\* the stream names the callers use
NumNames == 2

\* goroutines that call LogMux.Stream and LogMux.refreshColors
NumRegs == 2

\* goroutines that call LogStream.Write
NumWriters == 2

\* calls of Stream, of refreshColors and of Write in one run
MaxStreamCalls == 3
MaxRefresh == 2
MaxWrites == 3

\* calls of Write while streams are registered and recoloured
MaxMuxWrites == 1

\* calls of Write when every stream has a writing goroutine of its own
MaxSinkWrites == 2

\* the longest p a Write is given; a p holds at least one byte
MaxLen == 1

Names == 1 .. NumNames
Regs == 1 .. NumRegs
Writers == 1 .. NumWriters

\* the hues colorful.FastHappyColor draws (rand.Float64() * 360)
RandHues == {45, 180}

\* a colour: colorful.Hsv(hue, s, v). Saturation and value are fresh random
\* draws of every FastHappyPalette call, so two palettes never share a
\* colour: draw is the number of the refreshColors call that generated the
\* palette, and 0 for the colour FastHappyColor gives a new stream
Color(h, d) == [hue |-> h, draw |-> d]

\* colorful.FastHappyPalette(n), the d-th use of the generator:
\* colors[i] = Hsv(i * (360 / n), ., .) for i = 0 .. n-1
Palette(n, d) == [i \in 1 .. n |-> Color((i - 1) * (360 \div n), d)]

VARIABLES
    mu,         \* LogMux.mu: Nil when free, else the goroutine that holds it
    streams,    \* LogMux.streams: name -> the LogStream registered (Nil: none)
    isDirty,    \* LogMux.isDirty
    objs,       \* the LogStreams stored in the map, in the order of their
                \* registration: name, clr, and the closure's b and t;
                \* written: every byte appended to b so far;
                \* mark: Len(written) at the stream's last sink write
    handles,    \* the LogStreams Stream has returned to a caller
    timers,     \* the timers time.AfterFunc has created: the stream, where
                \* the callback is, the place in written of the first byte
                \* of the write that scheduled it, whether that write was
                \* the only Write running on the stream (alone) and its
                \* wafter (after)
    sink,       \* the calls of m.w.Write so far: stream and bytes; window and
                \* since are the bytes written since the scheduling write and
                \* since the stream's previous sink write; alone and after
                \* are the timer's
    sinkRes,    \* what the last m.w.Write returned
    rpc,        \* rpc[r]: where goroutine r is inside Stream / refreshColors
    rname,      \* rname[r]: the name given to Stream
    rclr,       \* rclr[r]: clr of Stream
    robj,       \* robj[r]: the LogStream the call stored
    rres,       \* rres[r]: how the last Stream call of r ended
    nStream,    \* Stream calls so far
    nRefresh,   \* refreshColors calls so far
    lastPal,    \* pal of the last refreshColors that was not a no-op
    wpc,        \* wpc[w]: where goroutine w is inside the write closure
    wobj,       \* wobj[w]: the LogStream written to
    wp,         \* wp[w]: p
    wfrom,      \* wfrom[w]: the place of p's first byte in written
    wtimer,     \* wtimer[w]: the timer AfterFunc returned, not yet stored in t
    wret,       \* wret[w]: what the last Write returned
    wafter,     \* wafter[w]: the call was made after a flush of the stream had
                \* completed, with no flush pending and no other Write running
    wsched,     \* wsched[w]: the call scheduled a flush
    nextByte,   \* bytes are numbered in the order they are written
    nWrites     \* Write calls so far

muxVars == << mu, streams, isDirty, objs, handles, timers, sink, sinkRes,
              rpc, rname, rclr, robj, rres, nStream, nRefresh, lastPal,
              wpc, wobj, wp, wfrom, wtimer, wret, wafter, wsched,
              nextByte, nWrites >>

\* NewLogMux
InitMux ==
    /\ mu = Nil
    /\ streams = [n \in Names |-> Nil]
    /\ isDirty = FALSE
    /\ objs = << >>
    /\ handles = {}
    /\ timers = << >>
    /\ sink = << >>
    /\ sinkRes = "none"
    /\ rpc = [r \in Regs |-> "idle"]
    /\ rname = [r \in Regs |-> Nil]
    /\ rclr = [r \in Regs |-> Color(0, 0)]
    /\ robj = [r \in Regs |-> Nil]
    /\ rres = [r \in Regs |-> "none"]
    /\ nStream = 0
    /\ nRefresh = 0
    /\ lastPal = << >>
    /\ wpc = [w \in Writers |-> "idle"]
    /\ wobj = [w \in Writers |-> Nil]
    /\ wp = [w \in Writers |-> << >>]
    /\ wfrom = [w \in Writers |-> 0]
    /\ wtimer = [w \in Writers |-> Nil]
    /\ wret = [w \in Writers |-> [n |-> 0, err |-> "none"]]
    /\ wafter = [w \in Writers |-> FALSE]
    /\ wsched = [w \in Writers |-> FALSE]
    /\ nextByte = 1
    /\ nWrites = 0

regVars == << rpc, rname, rclr, robj, rres, nStream, nRefresh >>
writerVars == << wpc, wobj, wp, wfrom, wtimer, wret, wafter, wsched,
                 nextByte, nWrites >>

\* Stream is entered: clr := colorful.FastHappyColor(); the closure and the
\* LogStream are built, nothing of the mux is touched yet
StreamCall(r, name, h) ==
    /\ rpc[r] = "idle"
    /\ nStream' = nStream + 1
    /\ rpc' = [rpc EXCEPT ![r] = "slock"]
    /\ rname' = [rname EXCEPT ![r] = name]
    /\ rclr' = [rclr EXCEPT ![r] = Color(h, 0)]
    /\ robj' = [robj EXCEPT ![r] = Nil]
    /\ rres' = [rres EXCEPT ![r] = "none"]
    /\ UNCHANGED << mu, streams, isDirty, objs, handles, timers, sink, sinkRes,
                    nRefresh, lastPal, writerVars >>

\* m.mu.Lock()
StreamLock(r) ==
    /\ rpc[r] = "slock"
    /\ mu = Nil
    /\ mu' = r
    /\ rpc' = [rpc EXCEPT ![r] = "register"]
    /\ UNCHANGED << streams, isDirty, objs, handles, timers, sink, sinkRes,
                    rname, rclr, robj, rres, nStream, nRefresh, lastPal,
                    writerVars >>

\* _, exists := m.streams[name]
ExistsNever(name) == FALSE

Exists(name) == streams[name] # Nil

\* s := &LogStream{name: name, clr: clr, w: w}, with var b bytes.Buffer and
\* var t *time.Timer of the closure
NewStream(name, clr) ==
    [name |-> name, clr |-> clr, b |-> << >>, t |-> Nil,
     written |-> << >>, mark |-> 0]

\* m.streams[name] = s: the LogStreams of the map, s added
StoreRecolouring(name, clr) ==
    Append([o \in DOMAIN objs |-> [objs[o] EXCEPT !.clr = clr]],
           NewStream(name, clr))

Store(name, clr) == Append(objs, NewStream(name, clr))

\* if exists { panic(...) }; m.streams[name] = s; m.isDirty = true
StreamRegisterNotDirty(r) ==
    /\ rpc[r] = "register"
    /\ IF Exists(rname[r])
       THEN /\ rres' = [rres EXCEPT ![r] = "panic"]
            /\ UNCHANGED << streams, objs, robj >>
       ELSE /\ objs' = Store(rname[r], rclr[r])
            /\ streams' = [streams EXCEPT ![rname[r]] = Len(objs) + 1]
            /\ robj' = [robj EXCEPT ![r] = Len(objs) + 1]
            /\ rres' = [rres EXCEPT ![r] = "ok"]
    /\ rpc' = [rpc EXCEPT ![r] = "sunlock"]
    /\ UNCHANGED << mu, isDirty, handles, timers, sink, sinkRes, rname, rclr,
                    nStream, nRefresh, lastPal, writerVars >>

StreamRegister(r) ==
    /\ rpc[r] = "register"
    /\ IF Exists(rname[r])
       THEN /\ rres' = [rres EXCEPT ![r] = "panic"]
            /\ UNCHANGED << streams, isDirty, objs, robj >>
       ELSE /\ objs' = Store(rname[r], rclr[r])
            /\ streams' = [streams EXCEPT ![rname[r]] = Len(objs) + 1]
            /\ isDirty' = TRUE
            /\ robj' = [robj EXCEPT ![r] = Len(objs) + 1]
            /\ rres' = [rres EXCEPT ![r] = "ok"]
    /\ rpc' = [rpc EXCEPT ![r] = "sunlock"]
    /\ UNCHANGED << mu, handles, timers, sink, sinkRes, rname, rclr, nStream,
                    nRefresh, lastPal, writerVars >>

\* defer m.mu.Unlock() runs, on the return and on the panic alike; a
\* returning call hands s to its caller
StreamUnlock(r) ==
    /\ rpc[r] = "sunlock"
    /\ mu' = Nil
    /\ handles' = IF rres[r] = "ok" THEN handles \cup {robj[r]} ELSE handles
    /\ rpc' = [rpc EXCEPT ![r] = "idle"]
    /\ UNCHANGED << streams, isDirty, objs, timers, sink, sinkRes,
                    rname, rclr, robj, rres, nStream, nRefresh, lastPal,
                    writerVars >>

\* refreshColors is entered: m.mu.Lock()
RefreshLock(r) ==
    /\ rpc[r] = "idle"
    /\ mu = Nil
    /\ mu' = r
    /\ nRefresh' = nRefresh + 1
    /\ rpc' = [rpc EXCEPT ![r] = "refresh"]
    /\ UNCHANGED << streams, isDirty, objs, handles, timers, sink, sinkRes,
                    rname, rclr, robj, rres, nStream, lastPal, writerVars >>

\* the LogStreams in the map
Registered == {streams[n] : n \in {m \in Names : streams[m] # Nil}}

\* the orders in which range m.streams may visit the map
Orders(S) ==
    {f \in [1 .. Cardinality(S) -> S] :
        \A i, j \in 1 .. Cardinality(S) : i # j => f[i] # f[j]}

\* i := 0; for _, v := range m.streams { v.clr = pal[i]; i++ }
AssignNoIncrement(pal, order) ==
    [o \in DOMAIN objs |->
        IF \E i \in DOMAIN order : order[i] = o
        THEN [objs[o] EXCEPT !.clr = pal[1]]
        ELSE objs[o]]

Assign(pal, order) ==
    [o \in DOMAIN objs |->
        IF \E i \in DOMAIN order : order[i] = o
        THEN [objs[o] EXCEPT
                 !.clr = pal[CHOOSE i \in DOMAIN order : order[i] = o]]
        ELSE objs[o]]

\* the test of if !m.isDirty { return }
NeedsRefreshAlways == TRUE

NeedsRefresh == isDirty

\* if !m.isDirty { return }; pal := colorful.FastHappyPalette(len(m.streams));
\* the loop; m.isDirty = false
Refresh(r) ==
    /\ rpc[r] = "refresh"
    /\ IF ~NeedsRefresh
       THEN UNCHANGED << objs, isDirty, lastPal >>
       ELSE \E order \in Orders(Registered) :
               /\ lastPal' = Palette(Cardinality(Registered), nRefresh)
               /\ objs' = Assign(lastPal', order)
               /\ isDirty' = FALSE
    /\ rpc' = [rpc EXCEPT ![r] = "runlock"]
    /\ UNCHANGED << mu, streams, handles, timers, sink, sinkRes,
                    rname, rclr, robj, rres, nStream, nRefresh, writerVars >>

\* defer m.mu.Unlock()
RefreshUnlock(r) ==
    /\ rpc[r] = "runlock"
    /\ mu' = Nil
    /\ rpc' = [rpc EXCEPT ![r] = "idle"]
    /\ UNCHANGED << streams, isDirty, objs, handles, timers, sink, sinkRes,
                    rname, rclr, robj, rres, nStream, nRefresh, lastPal,
                    writerVars >>

\* the timers of LogStream s, and the Writes running on it
TimersOf(s) == {k \in DOMAIN timers : timers[k].stream = s}
WritingOn(s) == {w \in Writers : wpc[w] # "idle" /\ wobj[w] = s}

\* the n bytes of a p, numbered from the next unused number
Bytes(n) == [i \in 1 .. n |-> nextByte + i - 1]

\* LogStream.Write: return s.w(p), and the closure's first statement
\* b.Write(p)
Write(w, s, n) ==
    /\ wpc[w] = "idle"
    /\ s \in handles
    /\ nWrites' = nWrites + 1
    /\ nextByte' = nextByte + n
    /\ wobj' = [wobj EXCEPT ![w] = s]
    /\ wp' = [wp EXCEPT ![w] = Bytes(n)]
    /\ wfrom' = [wfrom EXCEPT ![w] = Len(objs[s].written) + 1]
    /\ wafter' = [wafter EXCEPT ![w] =
                     /\ TimersOf(s) # {}
                     /\ \A k \in TimersOf(s) : timers[k].pc = "done"
                     /\ WritingOn(s) = {}]
    /\ wsched' = [wsched EXCEPT ![w] = FALSE]
    /\ objs' = [objs EXCEPT ![s].b = @ \o Bytes(n),
                            ![s].written = @ \o Bytes(n)]
    /\ wpc' = [wpc EXCEPT ![w] = "check"]
    /\ UNCHANGED << mu, streams, isDirty, handles, timers, sink, sinkRes,
                    regVars, lastPal, wtimer, wret >>

\* return len(p), nil
WriteResultOfSink(p) ==
    [n |-> IF sinkRes = "short" THEN 0 ELSE Len(p),
     err |-> IF sinkRes = "err" THEN "sink" ELSE NilErr]

WriteResult(p) == [n |-> Len(p), err |-> NilErr]

\* if t == nil { ... time.AfterFunc(m.bufMs, func() {...}) ... }: the test,
\* and the timer AfterFunc starts when t is nil; else return len(p), nil
WCheck(w) ==
    /\ wpc[w] = "check"
    /\ IF objs[wobj[w]].t = Nil
       THEN /\ timers' = Append(timers, [stream |-> wobj[w], pc |-> "pending",
                                         from |-> wfrom[w],
                                         alone |-> WritingOn(wobj[w]) = {w},
                                         after |-> wafter[w]])
            /\ wtimer' = [wtimer EXCEPT ![w] = Len(timers) + 1]
            /\ wsched' = [wsched EXCEPT ![w] = TRUE]
            /\ wpc' = [wpc EXCEPT ![w] = "store"]
            /\ UNCHANGED wret
       ELSE /\ wret' = [wret EXCEPT ![w] = WriteResult(wp[w])]
            /\ wpc' = [wpc EXCEPT ![w] = "idle"]
            /\ UNCHANGED << timers, wtimer, wsched >>
    /\ UNCHANGED << mu, streams, isDirty, objs, handles, sink, sinkRes,
                    regVars, lastPal, wobj, wp, wfrom, wafter, nextByte,
                    nWrites >>

\* t = (the timer AfterFunc returned); return len(p), nil
WStore(w) ==
    /\ wpc[w] = "store"
    /\ objs' = [objs EXCEPT ![wobj[w]].t = wtimer[w]]
    /\ wtimer' = [wtimer EXCEPT ![w] = Nil]
    /\ wret' = [wret EXCEPT ![w] = WriteResult(wp[w])]
    /\ wpc' = [wpc EXCEPT ![w] = "idle"]
    /\ UNCHANGED << mu, streams, isDirty, handles, timers, sink, sinkRes,
                    regVars, lastPal, wobj, wp, wfrom, wafter, wsched,
                    nextByte, nWrites >>

\* the bytes of written from place i on
From(s, i) == SubSeq(objs[s].written, i, Len(objs[s].written))

\* the timer fires: m.w.Write(b.Bytes()) is called
FlushBegin(k) ==
    /\ timers[k].pc = "pending"
    /\ LET s == timers[k].stream IN
         /\ sink' = Append(sink, [stream |-> s,
                                  bytes |-> objs[s].b,
                                  window |-> From(s, timers[k].from),
                                  alone |-> timers[k].alone,
                                  after |-> timers[k].after,
                                  since |-> From(s, objs[s].mark + 1)])
         /\ objs' = [objs EXCEPT ![s].mark = Len(objs[s].written)]
    /\ timers' = [timers EXCEPT ![k].pc = "writing"]
    /\ UNCHANGED << mu, streams, isDirty, handles, sinkRes, regVars, lastPal,
                    writerVars >>

\* what an io.Writer may answer: all written, fewer bytes written, an error
SinkResults == {"ok", "short", "err"}

\* m.w.Write returns; its results are dropped
FlushEnd(k, res) ==
    /\ timers[k].pc = "writing"
    /\ sinkRes' = res
    /\ timers' = [timers EXCEPT ![k].pc = "wrote"]
    /\ UNCHANGED << mu, streams, isDirty, objs, handles, sink, regVars,
                    lastPal, writerVars >>

\* b.Reset()
FlushReset(k) ==
    /\ timers[k].pc = "wrote"
    /\ objs' = [objs EXCEPT ![timers[k].stream].b = << >>]
    /\ timers' = [timers EXCEPT ![k].pc = "reset"]
    /\ UNCHANGED << mu, streams, isDirty, handles, sink, sinkRes, regVars,
                    lastPal, writerVars >>

\* t = nil
FlushClear(k) ==
    /\ timers[k].pc = "reset"
    /\ objs' = [objs EXCEPT ![timers[k].stream].t = Nil]
    /\ timers' = [timers EXCEPT ![k].pc = "done"]
    /\ UNCHANGED << mu, streams, isDirty, handles, sink, sinkRes, regVars,
                    lastPal, writerVars >>

\* the steps of the goroutines inside Stream
StreamSteps(r) ==
    \/ StreamLock(r)
    \/ StreamRegister(r)
    \/ StreamUnlock(r)

\* the steps of the goroutines inside Write, and of the timers
WriteSteps ==
    \/ \E w \in Writers :
          \/ WCheck(w)
          \/ WStore(w)
    \/ \E k \in DOMAIN timers :
          \/ FlushBegin(k)
          \/ \E res \in SinkResults : FlushEnd(k, res)
          \/ FlushReset(k)
          \/ FlushClear(k)

\* a LogMux whose streams are registered and recoloured by NumRegs
\* goroutines while one goroutine writes
NextMux ==
    \/ \E r \in Regs :
          \/ /\ nStream < MaxStreamCalls
             /\ \E name \in Names, h \in RandHues : StreamCall(r, name, h)
          \/ StreamSteps(r)
          \/ nRefresh < MaxRefresh /\ RefreshLock(r)
          \/ Refresh(r)
          \/ RefreshUnlock(r)
    \/ /\ nWrites < MaxMuxWrites
       /\ \E s \in handles, n \in 1 .. MaxLen : Write(1, s, n)
    \/ WriteSteps

\* a LogMux with one registered stream that NumWriters goroutines write
NextStream ==
    \/ /\ nStream < 1
       /\ \E h \in RandHues : StreamCall(1, 1, h)
    \/ StreamSteps(1)
    \/ /\ nWrites < MaxWrites
       /\ \E w \in Writers, s \in handles, n \in 1 .. MaxLen : Write(w, s, n)
    \/ WriteSteps

\* a LogMux with one registered stream that one goroutine writes
NextWriter ==
    \/ /\ nStream < 1
       /\ \E h \in RandHues : StreamCall(1, 1, h)
    \/ StreamSteps(1)
    \/ /\ nWrites < MaxWrites
       /\ \E s \in handles, n \in 1 .. MaxLen : Write(1, s, n)
    \/ WriteSteps

\* a LogMux whose streams are written by one goroutine each: goroutine w
\* writes the stream registered w-th
NextSink ==
    \/ /\ nStream < NumNames
       /\ \E name \in Names, h \in RandHues : StreamCall(1, name, h)
    \/ StreamSteps(1)
    \/ /\ nWrites < MaxSinkWrites
       /\ \E w \in Writers, n \in 1 .. MaxLen : w \in handles /\ Write(w, w, n)
    \/ WriteSteps

\* ------------------------------------------------------------------------
\* The specifications
\* ------------------------------------------------------------------------

vars == << connVars, startVars, muxVars >>

\* the Machine Conn is called on and the LogMux are constructed
Init == InitConn /\ InitStart /\ InitMux

\* goroutines calling Conn on one Machine
SpecConn == Init /\ [][NextConn /\ UNCHANGED << startVars, muxVars >>]_vars

\* the same, every goroutine inside Conn going on as long as it can: Dial
\* and Sleep return, and a goroutine blocked in Lock runs once the mutex is
\* free for good
FairConn == SpecConn /\ WF_vars(NextConn /\ UNCHANGED << startVars, muxVars >>)

\* goroutines constructing Machines and calling Start on them
SpecStart == Init /\ [][NextStart /\ UNCHANGED << connVars, muxVars >>]_vars

\* goroutines calling Stream, refreshColors and Write on one LogMux, and its
\* flush timers
SpecMux == Init /\ [][NextMux /\ UNCHANGED << connVars, startVars >>]_vars

\* goroutines calling Write on one LogStream of a LogMux, and its flush timers
SpecStream ==
    Init /\ [][NextStream /\ UNCHANGED << connVars, startVars >>]_vars

\* one goroutine calling Write on one LogStream, and the flush timers
SpecWriter == Init /\ [][NextWriter /\ UNCHANGED << connVars, startVars >>]_vars

\* goroutines calling Write on a LogStream of their own each, and the flush
\* timers
SpecSink == Init /\ [][NextSink /\ UNCHANGED << connVars, startVars >>]_vars

\* ------------------------------------------------------------------------
\* Properties of Machine.Conn
\* ------------------------------------------------------------------------

\* caller c has made a call and the call has returned
Done(c) == cpc[c] = "idle" /\ nCalls[c] > 0

\* the last calls of c and d ran concurrently, both made while the Machine
\* had no cached connection, and both have returned
ConcurrentAbsent(c, d) ==
    /\ c # d
    /\ Done(c) /\ Done(d)
    /\ d \in overlap[c] /\ c \in overlap[d]
    /\ absent[c] /\ absent[d]

\* the calls among c and d that ran the dial loop
Sequences(c, d) == {e \in {c, d} : dials[e] > 0}

\* C1, as stated: two concurrent Conn calls on a Machine with no cached
\* connection perform exactly one dial attempt sequence in total and return
\* the same result (the same handle, or both an error), whatever the dial
\* attempts do.
C1_OneSequenceSameResult ==
    \A c, d \in Callers :
        ConcurrentAbsent(c, d) =>
            /\ Cardinality(Sequences(c, d)) = 1
            /\ ret[c] = ret[d]

\* C1, amended: of two concurrent Conn calls on a Machine with no cached
\* connection at most one dials successfully; when the call that gets the
\* lock first dials successfully, the other makes no dial attempt and both
\* return that one handle with a nil error; when the first call's three
\* attempts all fail it alone returns the error and the other call runs its
\* own check and dial sequence; two calls that both return a connection
\* return the same handle.
C1_OneSequenceUnlessExhausted ==
    \A c, d \in Callers :
        (ConcurrentAbsent(c, d) /\ acq[c] < acq[d]) =>
            /\ ~(dialOk[c] /\ dialOk[d])
            /\ dialOk[c] =>
                  /\ dials[d] = 0
                  /\ Cardinality(Sequences(c, d)) = 1
                  /\ ret[c].err = NilErr
                  /\ ret[d] = ret[c]
            /\ ret[c].err # NilErr =>
                  /\ dials[c] = 3
                  /\ dials[d] = 0 => ret[d].err = NilErr
                  /\ Cardinality(Callers) = 2 => dials[d] > 0
            /\ (ret[c].err = NilErr /\ ret[d].err = NilErr) =>
                  ret[c].conn = ret[d].conn

\* two concurrent calls have returned the same handle after one sequence
C1_Witness ==
    \E c, d \in Callers :
        /\ ConcurrentAbsent(c, d)
        /\ acq[c] < acq[d]
        /\ dialOk[c] /\ dials[c] = 2 /\ dials[d] = 0
        /\ ret[c].conn # Nil /\ ret[d] = ret[c]

\* C2: the cached connection starts absent and, once a dial has succeeded,
\* never changes; a Conn call made after that returns the cached handle with
\* a nil error and makes no dial attempt.
C2_CacheNeverChanges ==
    /\ conn = Nil
    /\ [][conn # Nil => conn' = conn]_vars
    /\ [](\A c \in Callers :
            (Done(c) /\ ~absent[c]) =>
                /\ ret[c] = [conn |-> conn, err |-> NilErr]
                /\ dials[c] = 0)

\* a call made after the connection was cached has returned it
C2_Witness ==
    \E c \in Callers :
        /\ Done(c) /\ ~absent[c]
        /\ conn # Nil /\ ret[c].conn = conn
        /\ \E d \in Callers \ {c} : nCalls[d] = MaxCalls /\ Done(d)

\* C3: one Conn call makes at most three dial attempts and stops at the
\* first successful one; it returns an error if and only if three attempts
\* were made and all failed; when it returns the error the cache is still
\* absent (so the next call finds no connection and dials again).
C3_BoundedRetry ==
    \A c \in Callers :
        /\ dials[c] <= 3
        /\ dialOk[c] => cpc[c] \in {"store", "unlock", "idle"}
        /\ cpc[c] = "unlock" =>
              /\ rv[c].err # NilErr <=> (dials[c] = 3 /\ ~dialOk[c])
              /\ rv[c].err # NilErr => (conn = Nil /\ rv[c].conn = Nil)
        /\ Done(c) =>
              /\ ret[c].err # NilErr <=> (dials[c] = 3 /\ ~dialOk[c])
              /\ ret[c].err # NilErr => ret[c].conn = Nil

\* a call has returned the error after three failed attempts, and the same
\* caller's next call has dialled again and succeeded at its third attempt
C3_Witness ==
    \E c \in Callers :
        /\ nCalls[c] = 2
        /\ ret[c].err = ErrOpen
        /\ cpc[c] = "unlock"
        /\ dialOk[c] /\ dials[c] = 3
        /\ conn = rv[c].conn

\* caller c is inside the check-dial-cache sequence of openConn
InSequence(c) == cpc[c] \in {"check", "loop", "sleep", "store", "unlock"}

\* C14: at most one caller at a time is inside the check-dial-cache sequence
\* of openConn, and it is the one that holds connMu: no two callers dial at
\* the same time and no caller tests the cache while another is between its
\* successful dial and the store of the connection; a caller that has left
\* openConn, by either return, does not hold connMu, and a caller waiting
\* for connMu gets it.
C14_SequenceUnderLock ==
    /\ [](\A c \in Callers : InSequence(c) <=> connMu = c)
    /\ [](\A c, d \in Callers :
            (c # d /\ cpc[c] \in {"loop", "sleep", "store"}) =>
                cpc[d] \in {"idle", "lock"})
    /\ \A c \in Callers : (cpc[c] = "lock") ~> (cpc[c] = "check")

\* a caller waits for connMu while the other, whose dial has succeeded, has
\* not stored the connection yet, after a call that returned the error
C14_Witness ==
    \E c, d \in Callers :
        /\ cpc[c] = "lock" /\ cpc[d] = "store"
        /\ connMu = d /\ conn = Nil
        /\ ret[c].err = ErrOpen

\* ------------------------------------------------------------------------
\* Properties of NewMachine and Machine.Start
\* ------------------------------------------------------------------------

\* how a call that is fatal to its caller would end
ErrFatal == "panic"

\* C11, as stated: a Start call on a Machine that Start has already started
\* is fatal: it spawns no second process, it does not get to the statements
\* that derive and record the socket addresses, and it does not return an
\* error or nil to its caller.
C11_SecondStartFatal ==
    \A m \in Machines :
        procs[m] # << >> =>
            /\ Len(procs[m]) = 1
            /\ spc[m] = "idle"
            /\ sret[m] \in {NilErr, ErrFatal}

\* s holds sub as a substring
Contains(s, sub) ==
    \E i \in 0 .. Len(s) - Len(sub) : SubSeq(s, i + 1, i + Len(sub)) = sub

\* the args Start has built so far for m: those of the running call and
\* those of the processes spawned
ArgsOf(m) ==
    {procs[m][i] : i \in DOMAIN procs[m]}
        \cup (IF sargs[m] = NoArgs THEN {} ELSE {sargs[m]})

\* C12: the networking argument Start builds contains a hostfwd clause if
\* and only if Conf.Ports holds at least one rule; with the rules
\* ["tcp::2222-:22"] it contains hostfwd=tcp::2222-:22, and with no rule it
\* is exactly "user".
C12_HostfwdIffPorts ==
    \A m \in Machines :
        \A a \in ArgsOf(m) :
            /\ Contains(a.net, HostfwdEq) <=> Len(mPorts[m]) > 0
            /\ mPorts[m] = << Rule22 >> =>
                  Contains(a.net, HostfwdEq \o Rule22)
            /\ mPorts[m] = << >> => a.net = User

\* a Machine with the one rule and a Machine with no rule have been started
C12_Witness ==
    \E m1, m2 \in Machines :
        /\ mPorts[m1] = << Rule22 >>
        /\ procs[m1] # << >>
        /\ procs[m1][1].net = User \o Comma \o HostfwdEq \o Rule22
        /\ mPorts[m2] = << >>
        /\ procs[m2] # << >>
        /\ procs[m2][1].net = User

\* the socket paths Start has derived for m so far
PathsOf(m) ==
    ({maddr[m], sttyAddr[m], mmonAddr[m]}
        \cup UNION {{a.serial, a.tty, a.monitor} : a \in ArgsOf(m)})
    \ {<< >>}

\* C13: the primary, _tty and _monitor paths Start derives for one Machine
\* are three different paths; two Machines with different IDs share no
\* path; no step of Start changes the ID NewMachine gave a Machine.
C13_PathsNeverCollide ==
    /\ [](\A m \in Machines :
            /\ (maddr[m] # << >> /\ sttyAddr[m] # << >>) =>
                  maddr[m] # sttyAddr[m]
            /\ mmonAddr[m] # << >> =>
                  (mmonAddr[m] # maddr[m] /\ mmonAddr[m] # sttyAddr[m])
            /\ \A a \in ArgsOf(m) :
                  Cardinality({a.serial, a.tty, a.monitor}) = 3)
    /\ [](\A m1, m2 \in made :
            mID[m1] # mID[m2] => PathsOf(m1) \cap PathsOf(m2) = {})
    /\ [][\A m \in made : mID'[m] = mID[m]]_vars

\* two Machines whose IDs differ only in their last byte have been started,
\* one of them twice
C13_Witness ==
    \E m1, m2 \in made :
        /\ mID[m1] # mID[m2]
        /\ SubSeq(mID[m1], 1, 2 * IdBytes - 2)
               = SubSeq(mID[m2], 1, 2 * IdBytes - 2)
        /\ Len(procs[m1]) = 2 /\ procs[m2] # << >>
        /\ Cardinality(PathsOf(m1) \cup PathsOf(m2)) = 6

\* ------------------------------------------------------------------------
\* Properties of LogMux.Stream and LogMux.refreshColors
\* ------------------------------------------------------------------------

\* C4: at most one Stream call per name succeeds: no two registered streams
\* have the same name and the map entry of a name is the stream of the first
\* successful call; a call that finds its name registered panics and hands
\* out no stream; a goroutine that has left Stream, by return or by panic,
\* does not hold the mux lock.
C4_UniqueNames ==
    /\ \A i, j \in DOMAIN objs : i # j => objs[i].name # objs[j].name
    /\ \A n \in Names :
          /\ streams[n] # Nil =>
                /\ streams[n] \in DOMAIN objs
                /\ objs[streams[n]].name = n
          /\ (\E o \in DOMAIN objs : objs[o].name = n) => streams[n] # Nil
    /\ \A r \in Regs :
          /\ rpc[r] = "sunlock" =>
                /\ rres[r] \in {"ok", "panic"}
                /\ rres[r] = "ok" =>
                      (robj[r] # Nil /\ streams[rname[r]] = robj[r])
                /\ rres[r] = "panic" =>
                      (robj[r] = Nil /\ streams[rname[r]] # Nil)
          /\ rpc[r] \in {"idle", "slock"} => mu # r
    /\ \A o \in handles : o \in DOMAIN objs /\ streams[objs[o].name] = o

\* a call has panicked on a registered name and left Stream, and a call
\* that took the lock after it has registered another name
C4_Witness ==
    \E r, q \in Regs :
        /\ rpc[r] = "idle" /\ rres[r] = "panic"
        /\ rpc[q] = "sunlock" /\ rres[q] = "ok" /\ mu = q
        /\ robj[q] = 2 /\ rname[q] # rname[r]

\* C9: a refreshColors that finds the mux dirty leaves every registered
\* stream with an entry of one palette generated with size exactly N, the
\* number of registered streams, and the N streams with N different entries.
C9_PaletteOfSizeN ==
    [][(isDirty /\ ~isDirty') =>
          /\ Len(lastPal') = Cardinality(Registered')
          /\ Cardinality(Registered') = Len(objs')
          /\ \A o \in Registered' :
                \E i \in DOMAIN lastPal' : objs'[o].clr = lastPal'[i]
          /\ \A o1, o2 \in Registered' :
                o1 # o2 => objs'[o1].clr # objs'[o2].clr
          /\ \A i \in DOMAIN lastPal' :
                \E o \in Registered' : objs'[o].clr = lastPal'[i]]_vars

\* two streams have been recoloured by a second refresh
C9_Witness ==
    /\ ~isDirty
    /\ Len(objs) = 2
    /\ nRefresh = 2
    /\ Len(lastPal) = 2
    /\ objs[1].clr = lastPal[2] /\ objs[2].clr = lastPal[1]
    /\ lastPal[1].draw = 2

\* a step of a goroutine inside Stream
StreamStepTaken ==
    \E r \in Regs :
        /\ rpc'[r] # rpc[r]
        /\ \/ rpc[r] \in {"slock", "register", "sunlock"}
           \/ rpc'[r] = "slock"

\* C10: no step of a Stream call changes the name, the colour or the buffered
\* bytes of a stream registered before.
C10_StreamFrame ==
    [][StreamStepTaken =>
          \A o \in DOMAIN objs :
              /\ o \in DOMAIN objs'
              /\ objs'[o].name = objs[o].name
              /\ objs'[o].clr = objs[o].clr
              /\ objs'[o].b = objs[o].b]_vars

\* a second stream has just been registered while the first, recoloured by
\* a refresh, holds buffered bytes
C10_Witness ==
    /\ Len(objs) = 2
    /\ objs[1].b # << >>
    /\ objs[1].clr.draw > 0
    /\ isDirty
    /\ \E r \in Regs : rpc[r] = "sunlock" /\ robj[r] = 2

\* ------------------------------------------------------------------------
\* Properties of LogStream.Write and the flush callback
\* ------------------------------------------------------------------------

\* the bytes of a sequence
Elems(q) == {q[i] : i \in DOMAIN q}

\* C5, as stated: the writes made from the write that schedules a flush (no
\* other Write running at that moment) up to the firing of that flush are
\* delivered in exactly one sink write, whose content is their concatenation.
C5_WindowInOneFlush ==
    \A i \in DOMAIN sink :
      sink[i].alone =>
        /\ sink[i].bytes = sink[i].window
        /\ \A j \in DOMAIN sink :
              (j # i /\ sink[j].stream = sink[i].stream) =>
                  Elems(sink[j].bytes) \cap Elems(sink[i].window) = {}

\* C6, as stated: a write made after the previous scheduled flush has fired
\* (its callback has run to its end and no other Write is running) schedules
\* a fresh flush, and that flush delivers only bytes written since the
\* stream's previous flush.
C6_FreshFlushAfterFire ==
    /\ \A w \in Writers :
          (wpc[w] = "idle" /\ wafter[w]) => wsched[w]
    /\ \A i \in DOMAIN sink :
          sink[i].after =>
              Elems(sink[i].bytes) \subseteq Elems(sink[i].since)

\* C7: Write returns len(p) and a nil error whatever the state of the stream
\* and whatever the sink's writes have returned.
C7_WriteNeverFails ==
    \A w \in Writers :
        (wpc[w] = "idle" /\ wobj[w] # Nil) =>
            wret[w] = [n |-> Len(wp[w]), err |-> NilErr]

\* a Write called after the sink had failed the stream's only flush has
\* returned
C7_Witness ==
    \E w \in Writers :
        /\ wpc[w] = "idle" /\ wafter[w]
        /\ Len(sink) = 1 /\ sinkRes = "err"
        /\ wret[w].n = Len(wp[w]) /\ Len(wp[w]) > 0

\* the concatenation of the sink writes i .. Len(sink) that come from s
RECURSIVE Flushed(_, _)
Flushed(s, i) ==
    IF i > Len(sink) THEN << >>
    ELSE (IF sink[i].stream = s THEN sink[i].bytes ELSE << >>)
             \o Flushed(s, i + 1)

\* C8, as stated: what the sink has received from one stream holds the
\* stream's bytes in the order they were written, none of them twice (bytes
\* are numbered in write order).
C8_FlushedInWriteOrder ==
    \A s \in DOMAIN objs :
        LET f == Flushed(s, 1) IN
            \A i, j \in DOMAIN f : i < j => f[i] < f[j]

\* the timers of s that AfterFunc has started and that have not fired yet
Pending(s) == {k \in TimersOf(s) : timers[k].pc = "pending"}

\* C15, as stated: a LogStream has at most one pending flush timer at any
\* time, whatever the number of goroutines writing it.
C15_OnePendingTimer ==
    \A s \in DOMAIN objs : Cardinality(Pending(s)) <= 1

\* a callback of s has read the buffer for the sink write and has not yet
\* both reset the buffer and cleared t
MidFlush(s) ==
    \E k \in TimersOf(s) : timers[k].pc \in {"writing", "wrote", "reset"}

\* C16, as stated: while a flush callback of a stream is between its read of
\* the buffer and its clearing of t, no Write appends to the stream's buffer
\* and no Write tests t.
C16_WriteExcludesFlush ==
    [][\A s \in DOMAIN objs :
          MidFlush(s) =>
              /\ objs'[s].written = objs[s].written
              /\ \A w \in Writers :
                    (wpc[w] = "check" /\ wobj[w] = s) => wpc'[w] = "check"]_vars

\* C17, as stated: no two flush callbacks are inside the sink's Write at
\* the same time.
C17_SinkWritesSerialized ==
    \A k1, k2 \in DOMAIN timers :
        (timers[k1].pc = "writing" /\ timers[k2].pc = "writing") => k1 = k2

\* C19, as stated: every byte a Write has appended is in the buffer or has
\* been handed to the sink, no byte is handed to the sink twice, and when
\* the buffer holds bytes not yet handed to the sink and no Write is running,
\* either a flush is pending or t is nil (or a callback is about to set it
\* to nil), so that the next Write schedules one.
C19_NoByteLost ==
    \A s \in DOMAIN objs :
        LET f == Flushed(s, 1) IN
            /\ Elems(objs[s].written) \subseteq (Elems(objs[s].b) \cup Elems(f))
            /\ \A i, j \in DOMAIN f : i # j => f[i] # f[j]
            /\ (Elems(objs[s].b) \ Elems(f) # {} /\ WritingOn(s) = {}) =>
                  \/ Pending(s) # {}
                  \/ objs[s].t = Nil
                  \/ \E k \in TimersOf(s) : timers[k].pc = "reset"

\* ------------------------------------------------------------------------
\* Properties of the dirty flag
\* ------------------------------------------------------------------------

\* goroutine r takes the step of refreshColors that tests the flag
RefreshTest(r) == rpc[r] = "refresh" /\ rpc'[r] = "runlock"

\* goroutine r takes the first or the last step of refreshColors
RefreshLockStep(r) ==
    \/ rpc[r] = "idle" /\ rpc'[r] = "refresh"
    \/ rpc[r] = "runlock" /\ rpc'[r] = "idle"

\* C18: a refreshColors call that finds the dirty flag clear changes no
\* stream (so no colour), not the map and not the flag; taking and releasing
\* the lock change none of them either.
C18_RefreshNoOpWhenClean ==
    [][\A r \in Regs :
          ((RefreshTest(r) /\ ~isDirty) \/ RefreshLockStep(r)) =>
              /\ objs' = objs
              /\ streams' = streams
              /\ isDirty' = isDirty]_vars

\* the second of two refreshColors calls with no Stream call between them
\* has found the flag clear and left the colours of the first call
C18_Witness ==
    \E r \in Regs :
        /\ rpc[r] = "runlock"
        /\ nRefresh = 2 /\ ~isDirty
        /\ Len(objs) = 2
        /\ lastPal # << >> /\ lastPal[1].draw = 1
        /\ \A o \in DOMAIN objs : objs[o].clr.draw = 1

\* C20: when the dirty flag is clear, either no stream is registered or the
\* registered streams hold pairwise different entries of the last palette,
\* whose size is the number of registered streams; the step that registers
\* a stream sets the flag, and only the step of refreshColors that recolours
\* clears it.
C20_CleanMeansRecoloured ==
    /\ [](~isDirty =>
            \/ Registered = {}
            \/ /\ Len(lastPal) = Cardinality(Registered)
               /\ \A o \in Registered :
                     \E i \in DOMAIN lastPal : objs[o].clr = lastPal[i]
               /\ \A o1, o2 \in Registered :
                     o1 # o2 => objs[o1].clr # objs[o2].clr)
    /\ [][Len(objs') > Len(objs) => isDirty']_vars
    /\ [][(isDirty /\ ~isDirty') => \E r \in Regs : RefreshTest(r)]_vars

\* the flag is clear with two streams recoloured by one refresh, after a
\* Stream call that panicked, and nobody is inside the mux
C20_Witness ==
    /\ ~isDirty /\ mu = Nil
    /\ Cardinality(Registered) = 2
    /\ nRefresh = 1 /\ nStream = 3
    /\ objs[1].clr # objs[2].clr
    /\ \E r \in Regs : rres[r] = "panic"
    /\ \A r \in Regs : rpc[r] = "idle"

====
